---------------------------- MODULE Spec2Model ----------------------------
(***************************************************************************)
(* Model of harvest_scopus.py: the incremental Scopus downloader.          *)
(*                                                                         *)
(* One process runs the script top to bottom: it loads the checkpoint      *)
(* (cursor_state.json), pages through the provider with a retrying fetch,  *)
(* buffers the entries, flushes the buffer to a numbered chunk file every  *)
(* CHUNK_SIZE_REQS successful requests, stops on one of five conditions,   *)
(* flushes what is left and overwrites the checkpoint.  The process may be *)
(* killed at any point, and the operator may start the script again; the   *)
(* checkpoint file and the chunk files are what survives between runs.     *)
(*                                                                         *)
(* The provider is the environment.  A cursor token is modelled as the     *)
(* position it marks in the result stream: "*" is position 0 and the       *)
(* "@next" token of the page at position p is p + 1.  A record is the pair *)
(* <<position of its page, index in the page>>.                            *)
(***************************************************************************)
EXTENDS Integers, Sequences, FiniteSets, TLC

\* ---- bounds of the model ------------------------------------------------
\* The script sets MAX_REQS_PER_RUN = 40000 and CHUNK_SIZE_REQS = 2000
\* (harvest_scopus.py lines 19-20); the model runs the same code with small
\* values that keep the quota a multiple of the chunk size.
MAX_REQS_PER_RUN == 4
CHUNK_SIZE_REQS == 2
\* Number of times the script is started in one behaviour.
MaxRuns == 2

\* The limiter is followed in ticks of a clock.  The script sets MAX_RPS = 9
\* and WINDOW = 1.0 second (lines 49-50); the model allows MAX_RPS requests
\* in a window of WINDOW ticks.
MAX_RPS == 2
WINDOW == 3

\* ---- program constants --------------------------------------------------
\* time.sleep(WINDOW - (now - recent_ts[0]) + 0.001): the margin, one tick.
MARGIN == 1
\* time.sleep(2 + attempt): the seconds slept after the first failure.
RetrySleepBase == 2
\* for attempt in range(5)
RetryAttempts == 5

\* ---- values -------------------------------------------------------------
\* The sentinel cursor "*": the start of the result set.
StartCursor == 0
\* "No cursor yet" for the history variables.
NoCursor == StartCursor - 1
\* cursor_state.json does not exist.
NoState == [exists |-> FALSE]

VARIABLES
    \* ---- the disk ----
    state_file,      \* STATE_FILE: NoState or [exists, cursor, chunk_counter]
    raw_dir,         \* OUT_RAW_DIR: chunk counter -> records of that file
    \* ---- the running process ----
    pc,              \* position of the script
    run,             \* number of times the script has been started
    cursor,          \* query["cursor"]
    chunk_counter,
    records_buffer,
    requests_done,
    attempt,         \* failed attempts of the current fetch
    exit,            \* pagination state: HAS_MORE, EXHAUSTED, QUOTA_HIT, FATAL
    \* ---- history of the current run (not read by the script) ----
    disk_at_start,   \* state_file as it was when the run started
    started,         \* cursors some request of this run was issued with
    consumed,        \* cursors whose page was appended to records_buffer
    returned,        \* records of all pages with entries, in order
    written,         \* chunks flushed by this run: <<[counter, records]>>
    saves,           \* times this run wrote state_file
    issued,          \* requests issued to the provider by this run
    answered,        \* HTTP responses received by this run
    iterations,      \* iterations of the main loop started by this run
    last_fetch,      \* cursor the latest request was issued with
    last_next,       \* "@next" token of the latest page that had one
    last_resp,       \* what the provider did to the latest request
    \* ---- rate_limited_get in time (specification LimiterSpec) ----
    lim,             \* position of the caller of rate_limited_get
    recent_ts,       \* recent_ts: ages in ticks of the recorded timestamps
    sleep_left,      \* ticks left of the time.sleep in progress
    sent,            \* ages of the requests issued in the last WINDOW
    waited           \* the call in progress has slept in the wait loop

vars == <<state_file, raw_dir, pc, run, cursor, chunk_counter, records_buffer,
          requests_done, attempt, exit, disk_at_start, started, consumed,
          returned, written, saves, issued, answered, iterations,
          last_fetch, last_next, last_resp, lim, recent_ts, sleep_left,
          sent, waited>>

disk == <<state_file, raw_dir>>
history == <<disk_at_start, started, consumed, returned, written, saves,
             issued, answered, iterations, last_fetch, last_next, last_resp>>
limiter == <<lim, recent_ts, sleep_left, sent, waited>>
\* What the limiter specification leaves alone: all of the script but the
\* retry counter.
script == <<state_file, raw_dir, pc, run, cursor, chunk_counter,
            records_buffer, requests_done, exit, history>>

\* ---- helpers ------------------------------------------------------------
\* The result set is fixed: the page at position p holds PageSize(p) records
\* (at least one, and not the same number on every page), so a cursor that
\* is fetched twice returns the same records twice.
PageSize(p) == 1 + (p % 2)
\* The "entry" list of the page at position p.
Entries(p) == [i \in 1..PageSize(p) |-> <<p, i>>]

RECURSIVE Flat(_)
\* The records of a sequence of chunks, in the order they were written.
Flat(chunks) ==
    IF chunks = <<>> THEN <<>>
    ELSE chunks[1].records \o Flat(Tail(chunks))

\* No element occurs twice in the sequence s.
NoDuplicates(s) == \A i, j \in DOMAIN s : s[i] = s[j] => i = j

\* The pages (fetches) the records of a buffer or a chunk came from.
PagesOf(recs) == {recs[i][1] : i \in DOMAIN recs}

\* The counters of the chunk files this run has flushed.
RunCounters == {written[i].counter : i \in DOMAIN written}

\* The latest cursor whose page this run appended to the buffer (cursors
\* grow along the result stream).
LastConsumed ==
    IF consumed = {} THEN NoCursor
    ELSE CHOOSE c \in consumed : \A d \in consumed : d <= c

\* The checkpoint the run found on disk, with the defaults for a missing file.
CursorAtStart ==
    IF disk_at_start.exists THEN disk_at_start.cursor ELSE StartCursor
CounterAtStart ==
    IF disk_at_start.exists THEN disk_at_start.chunk_counter ELSE 0

\* The cursor a run started now would load from the disk.
ResumeCursor ==
    IF state_file.exists THEN state_file.cursor ELSE StartCursor

\* The pages this run consumed that a run resumed from the disk fetches
\* again: those at or after the resume position.
Refetched == {c \in consumed : c >= ResumeCursor}

\* Every request of the run so far was answered with entries and "@next".
OnlyNextPages == issued = requests_done /\ last_resp # "last"

\* The run was aborted by five network errors in a row.
RetryAbort == exit = "FATAL" /\ last_resp = "neterr"

\* The script has left the main loop and flushed what was left.
Ended == pc \in {"save", "done"}

\* flush_chunk(records, counter): gzip.open(path, "wt") creates the file of
\* that counter (and date) or truncates the one that is there.
flush_chunk(dir, records, counter) ==
    [c \in (DOMAIN dir) \cup {counter} |->
        IF c = counter THEN records ELSE dir[c]]

\* LoadCursor that ignores the checkpoint: every run starts at "*".
LoadCursor_AlwaysStart(sf) == StartCursor

\* Resume state: the cursor the script starts from.
LoadCursor(sf) == IF sf.exists THEN sf.cursor ELSE StartCursor
\* Resume state: the chunk counter the script starts from.
LoadCounter(sf) == IF sf.exists THEN sf.chunk_counter ELSE 0

\* ---- initial state: nothing on disk, the script not yet started ----------
Init ==
    /\ state_file = NoState
    /\ raw_dir = <<>>
    /\ pc = "start"
    /\ run = 0
    /\ cursor = StartCursor
    /\ chunk_counter = 0
    /\ records_buffer = <<>>
    /\ requests_done = 0
    /\ attempt = 0
    /\ exit = "HAS_MORE"
    /\ disk_at_start = NoState
    /\ started = {}
    /\ consumed = {}
    /\ returned = <<>>
    /\ written = <<>>
    /\ saves = 0
    /\ issued = 0
    /\ answered = 0
    /\ iterations = 0
    /\ last_fetch = NoCursor
    /\ last_next = NoCursor
    /\ last_resp = "none"
    /\ lim = "idle"
    /\ recent_ts = <<>>
    /\ sleep_left = 0
    /\ sent = <<>>
    /\ waited = FALSE

\* ---- the script ----------------------------------------------------------
\* The operator starts the script: resume state, query skeleton and the
\* variables of the main loop (lines 30-37, 67-80).
StartRun ==
    /\ pc \in {"start", "done", "killed", "crashed"}
    /\ run < MaxRuns
    /\ run' = run + 1
    /\ cursor' = LoadCursor(state_file)
    /\ chunk_counter' = LoadCounter(state_file)
    /\ records_buffer' = <<>>
    /\ requests_done' = 0
    /\ attempt' = 0
    /\ exit' = "HAS_MORE"
    /\ pc' = "fetch"
    /\ disk_at_start' = state_file
    /\ started' = {}
    /\ consumed' = {}
    /\ returned' = <<>>
    /\ written' = <<>>
    /\ saves' = 0
    /\ issued' = 0
    /\ answered' = 0
    /\ iterations' = 1
    /\ last_fetch' = NoCursor
    /\ last_next' = NoCursor
    /\ last_resp' = "none"
    /\ UNCHANGED <<disk, limiter>>

\* One request goes out with the current query (rate_limited_get, line 86).
Request(resp) ==
    /\ pc = "fetch"
    /\ attempt < RetryAttempts
    /\ started' = started \cup {cursor}
    /\ issued' = issued + 1
    /\ answered' = answered + (IF resp = "neterr" THEN 0 ELSE 1)
    /\ last_fetch' = cursor
    /\ last_resp' = resp

\* NetworkError in a loop that does not count its attempts ("while True"
\* instead of "for attempt in range(5)").
NetworkError_NoCount ==
    /\ Request("neterr")
    /\ UNCHANGED <<disk, pc, run, cursor, chunk_counter, records_buffer,
                   requests_done, attempt, exit, disk_at_start, consumed,
                   returned, written, saves, iterations, last_next, limiter>>

\* NetworkError that gives the page up: the next attempt goes out with the
\* cursor after it.
NetworkError_SkipPage ==
    /\ Request("neterr")
    /\ attempt' = attempt + 1
    /\ cursor' = cursor + 1
    /\ UNCHANGED <<disk, pc, run, chunk_counter, records_buffer,
                   requests_done, exit, disk_at_start, consumed, returned,
                   written, saves, iterations, last_next, limiter>>

\* The request raises RequestException: report, sleep, next attempt
\* (lines 88-90).
NetworkError ==
    /\ Request("neterr")
    /\ attempt' = attempt + 1
    /\ UNCHANGED <<disk, pc, run, cursor, chunk_counter, records_buffer,
                   requests_done, exit, disk_at_start, consumed, returned,
                   written, saves, iterations, last_next, limiter>>

\* RetryExhausted one attempt early: range(4) instead of range(5).
RetryExhausted_Early ==
    /\ pc = "fetch"
    /\ attempt = RetryAttempts - 1
    /\ exit' = "FATAL"
    /\ pc' = "leftover"
    /\ UNCHANGED <<disk, run, cursor, chunk_counter, records_buffer,
                   requests_done, attempt, history, limiter>>

\* The for loop ran out of attempts: its else branch breaks the main loop
\* (lines 91-93).
RetryExhausted ==
    /\ pc = "fetch"
    /\ attempt = RetryAttempts
    /\ exit' = "FATAL"
    /\ pc' = "leftover"
    /\ UNCHANGED <<disk, run, cursor, chunk_counter, records_buffer,
                   requests_done, attempt, history, limiter>>

\* HttpError handled like a network error: count the attempt and try again.
HttpError_Retry ==
    /\ Request("http")
    /\ attempt' = attempt + 1
    /\ UNCHANGED <<disk, pc, run, cursor, chunk_counter, records_buffer,
                   requests_done, exit, disk_at_start, consumed, returned,
                   written, saves, iterations, last_next, limiter>>

\* A response whose status is not 200 breaks the main loop (lines 95-97).
HttpError ==
    /\ Request("http")
    /\ exit' = "FATAL"
    /\ pc' = "leftover"
    /\ UNCHANGED <<disk, run, cursor, chunk_counter, records_buffer,
                   requests_done, attempt, disk_at_start, consumed,
                   returned, written, saves, iterations, last_next, limiter>>

\* EmptyPage that moves the query past the empty page before it breaks.
EmptyPage_AdvanceCursor ==
    /\ Request("empty")
    /\ cursor' = cursor + 1
    /\ exit' = "EXHAUSTED"
    /\ pc' = "leftover"
    /\ UNCHANGED <<disk, run, chunk_counter, records_buffer, requests_done,
                   attempt, disk_at_start, consumed, returned, written,
                   saves, iterations, last_next, limiter>>

\* A 200 response with no entries: dataset complete (lines 99-103).
EmptyPage ==
    /\ Request("empty")
    /\ exit' = "EXHAUSTED"
    /\ pc' = "leftover"
    /\ UNCHANGED <<disk, run, cursor, chunk_counter, records_buffer,
                   requests_done, attempt, disk_at_start, consumed,
                   returned, written, saves, iterations, last_next, limiter>>

\* A 200 response with entries and no "@next": the entries are buffered and
\* counted, then the loop breaks (lines 99-112).
LastPage ==
    /\ Request("last")
    /\ records_buffer' = records_buffer \o Entries(cursor)
    /\ requests_done' = requests_done + 1
    /\ consumed' = consumed \cup {cursor}
    /\ returned' = returned \o Entries(cursor)
    /\ exit' = "EXHAUSTED"
    /\ pc' = "leftover"
    /\ UNCHANGED <<disk, run, cursor, chunk_counter, attempt, disk_at_start,
                   written, saves, iterations, last_next, limiter>>

\* NextPage without "requests_done += 1".
NextPage_NoCount ==
    /\ Request("next")
    /\ records_buffer' = records_buffer \o Entries(cursor)
    /\ consumed' = consumed \cup {cursor}
    /\ returned' = returned \o Entries(cursor)
    /\ cursor' = cursor + 1
    /\ last_next' = cursor + 1
    /\ pc' = "chunk"
    /\ UNCHANGED <<disk, run, chunk_counter, requests_done, attempt, exit,
                   disk_at_start, written, saves, iterations, limiter>>

\* NextPage without query["cursor"] = next_cursor: the next request goes out
\* with the cursor of the page just consumed.
NextPage_KeepCursor ==
    /\ Request("next")
    /\ records_buffer' = records_buffer \o Entries(cursor)
    /\ requests_done' = requests_done + 1
    /\ consumed' = consumed \cup {cursor}
    /\ returned' = returned \o Entries(cursor)
    /\ last_next' = cursor + 1
    /\ pc' = "chunk"
    /\ UNCHANGED <<disk, run, cursor, chunk_counter, attempt, exit,
                   disk_at_start, written, saves, iterations, limiter>>

\* A 200 response with entries and "@next": the entries are buffered and
\* counted and the query moves to the next cursor (lines 99-113).
NextPage ==
    /\ Request("next")
    /\ records_buffer' = records_buffer \o Entries(cursor)
    /\ requests_done' = requests_done + 1
    /\ consumed' = consumed \cup {cursor}
    /\ returned' = returned \o Entries(cursor)
    /\ cursor' = cursor + 1
    /\ last_next' = cursor + 1
    /\ pc' = "chunk"
    /\ UNCHANGED <<disk, run, chunk_counter, attempt, exit, disk_at_start,
                   written, saves, iterations, limiter>>

\* A 200 response that is not JSON, or has entries but no cursor object:
\* resp.json() or data["search-results"]["cursor"] raises and nothing
\* catches it (lines 99, 109).
MalformedResponse ==
    /\ Request("malformed")
    /\ pc' = "crashed"
    /\ UNCHANGED <<disk, run, cursor, chunk_counter, records_buffer,
                   requests_done, attempt, exit, disk_at_start, consumed,
                   returned, written, saves, iterations, last_next, limiter>>

\* ChunkFlush that also writes the checkpoint after the flush.
ChunkFlush_SaveCheckpoint ==
    /\ pc = "chunk"
    /\ requests_done % CHUNK_SIZE_REQS = 0
    /\ chunk_counter' = chunk_counter + 1
    /\ raw_dir' = flush_chunk(raw_dir, records_buffer, chunk_counter + 1)
    /\ written' = Append(written, [counter |-> chunk_counter + 1,
                                   records |-> records_buffer])
    /\ records_buffer' = <<>>
    /\ state_file' = [exists |-> TRUE, cursor |-> cursor,
                      chunk_counter |-> chunk_counter + 1]
    /\ saves' = saves + 1
    /\ pc' = "quota"
    /\ UNCHANGED <<run, cursor, requests_done, attempt, exit, disk_at_start,
                   started, consumed, returned, issued, answered,
                   iterations, last_fetch, last_next, last_resp, limiter>>

\* ChunkFlush without "records_buffer = []": the flushed records stay in the
\* buffer and are written again by the next flush.
ChunkFlush_KeepBuffer ==
    /\ pc = "chunk"
    /\ requests_done % CHUNK_SIZE_REQS = 0
    /\ chunk_counter' = chunk_counter + 1
    /\ raw_dir' = flush_chunk(raw_dir, records_buffer, chunk_counter + 1)
    /\ written' = Append(written, [counter |-> chunk_counter + 1,
                                   records |-> records_buffer])
    /\ pc' = "quota"
    /\ UNCHANGED <<state_file, run, cursor, records_buffer, requests_done,
                   attempt, exit, disk_at_start, started, consumed,
                   returned, saves, issued, answered, iterations,
                   last_fetch, last_next, last_resp, limiter>>

\* Chunk flush on a CHUNK_SIZE_REQS boundary (lines 116-119).
ChunkFlush ==
    /\ pc = "chunk"
    /\ requests_done % CHUNK_SIZE_REQS = 0
    /\ chunk_counter' = chunk_counter + 1
    /\ raw_dir' = flush_chunk(raw_dir, records_buffer, chunk_counter + 1)
    /\ written' = Append(written, [counter |-> chunk_counter + 1,
                                   records |-> records_buffer])
    /\ records_buffer' = <<>>
    /\ pc' = "quota"
    /\ UNCHANGED <<state_file, run, cursor, requests_done, attempt, exit,
                   disk_at_start, started, consumed, returned, saves,
                   issued, answered, iterations, last_fetch, last_next,
                   last_resp, limiter>>

\* ChunkSkip that also skips on a boundary: the flush may be missed.
ChunkSkip_OnBoundary ==
    /\ pc = "chunk"
    /\ pc' = "quota"
    /\ UNCHANGED <<disk, run, cursor, chunk_counter, records_buffer,
                   requests_done, attempt, exit, history, limiter>>

\* Not on a boundary: nothing is flushed (line 116).
ChunkSkip ==
    /\ pc = "chunk"
    /\ requests_done % CHUNK_SIZE_REQS # 0
    /\ pc' = "quota"
    /\ UNCHANGED <<disk, run, cursor, chunk_counter, records_buffer,
                   requests_done, attempt, exit, history, limiter>>

\* Per-run quota reached: break (lines 122-125).
QuotaHit ==
    /\ pc = "quota"
    /\ requests_done >= MAX_REQS_PER_RUN
    /\ exit' = "QUOTA_HIT"
    /\ pc' = "leftover"
    /\ UNCHANGED <<disk, run, cursor, chunk_counter, records_buffer,
                   requests_done, attempt, history, limiter>>

\* QuotaContinue with the quota test off by one (> instead of >=): one
\* more iteration after the quota has been reached.
QuotaContinue_OffByOne ==
    /\ pc = "quota"
    /\ requests_done <= MAX_REQS_PER_RUN
    /\ attempt' = 0
    /\ iterations' = iterations + 1
    /\ pc' = "fetch"
    /\ UNCHANGED <<disk, run, cursor, chunk_counter, records_buffer,
                   requests_done, exit, disk_at_start, started, consumed,
                   returned, written, saves, issued, answered, last_fetch,
                   last_next, last_resp, limiter>>

\* Quota not reached: the next iteration of the main loop (lines 82-84).
QuotaContinue ==
    /\ pc = "quota"
    /\ requests_done < MAX_REQS_PER_RUN
    /\ attempt' = 0
    /\ iterations' = iterations + 1
    /\ pc' = "fetch"
    /\ UNCHANGED <<disk, run, cursor, chunk_counter, records_buffer,
                   requests_done, exit, disk_at_start, started, consumed,
                   returned, written, saves, issued, answered, last_fetch,
                   last_next, last_resp, limiter>>

\* FlushLeftovers without "if records_buffer": the end of the run writes a
\* chunk whether or not anything is left.
FlushLeftovers_Unconditional ==
    /\ pc = "leftover"
    /\ chunk_counter' = chunk_counter + 1
    /\ raw_dir' = flush_chunk(raw_dir, records_buffer, chunk_counter + 1)
    /\ written' = Append(written, [counter |-> chunk_counter + 1,
                                   records |-> records_buffer])
    /\ pc' = "save"
    /\ UNCHANGED <<state_file, run, cursor, records_buffer, requests_done,
                   attempt, exit, disk_at_start, started, consumed,
                   returned, saves, issued, answered, iterations,
                   last_fetch, last_next, last_resp, limiter>>

\* FlushLeftovers without "chunk_counter += 1": the file is written under
\* the next number and the counter is left behind.
FlushLeftovers_NoIncrement ==
    /\ pc = "leftover"
    /\ records_buffer # <<>>
    /\ raw_dir' = flush_chunk(raw_dir, records_buffer, chunk_counter + 1)
    /\ written' = Append(written, [counter |-> chunk_counter + 1,
                                   records |-> records_buffer])
    /\ pc' = "save"
    /\ UNCHANGED <<state_file, run, cursor, chunk_counter, records_buffer,
                   requests_done, attempt, exit, disk_at_start, started,
                   consumed, returned, saves, issued, answered, iterations,
                   last_fetch, last_next, last_resp, limiter>>

\* Flush leftovers: the buffer is not empty (lines 128-130).
FlushLeftovers ==
    /\ pc = "leftover"
    /\ records_buffer # <<>>
    /\ chunk_counter' = chunk_counter + 1
    /\ raw_dir' = flush_chunk(raw_dir, records_buffer, chunk_counter + 1)
    /\ written' = Append(written, [counter |-> chunk_counter + 1,
                                   records |-> records_buffer])
    /\ pc' = "save"
    /\ UNCHANGED <<state_file, run, cursor, records_buffer, requests_done,
                   attempt, exit, disk_at_start, started, consumed,
                   returned, saves, issued, answered, iterations,
                   last_fetch, last_next, last_resp, limiter>>

\* Flush leftovers: the buffer is empty (line 128).
NoLeftovers ==
    /\ pc = "leftover"
    /\ records_buffer = <<>>
    /\ pc' = "save"
    /\ UNCHANGED <<disk, run, cursor, chunk_counter, records_buffer,
                   requests_done, attempt, exit, history, limiter>>

\* Persist state: STATE_FILE.write_text (lines 133-134).
PersistState ==
    /\ pc = "save"
    /\ state_file' = [exists |-> TRUE, cursor |-> cursor,
                      chunk_counter |-> chunk_counter]
    /\ saves' = saves + 1
    /\ pc' = "done"
    /\ UNCHANGED <<raw_dir, run, cursor, chunk_counter, records_buffer,
                   requests_done, attempt, exit, disk_at_start, started,
                   consumed, returned, written, issued, answered,
                   iterations, last_fetch, last_next, last_resp, limiter>>

\* The process is stopped from outside while the script is running.
Kill ==
    /\ pc \in {"fetch", "chunk", "quota", "leftover", "save"}
    /\ pc' = "killed"
    /\ UNCHANGED <<disk, run, cursor, chunk_counter, records_buffer,
                   requests_done, attempt, exit, history, limiter>>

Next ==
    \/ StartRun
    \/ NetworkError
    \/ RetryExhausted
    \/ HttpError
    \/ EmptyPage
    \/ LastPage
    \/ NextPage
    \/ MalformedResponse
    \/ ChunkFlush
    \/ ChunkSkip
    \/ QuotaHit
    \/ QuotaContinue
    \/ FlushLeftovers
    \/ NoLeftovers
    \/ PersistState
    \/ Kill

Spec == Init /\ [][Next]_vars

\* The steps of the script itself, for a provider that answers every request
\* with a well-formed response or an error.
ScriptStep ==
    \/ NetworkError
    \/ RetryExhausted
    \/ HttpError
    \/ EmptyPage
    \/ LastPage
    \/ NextPage
    \/ ChunkFlush
    \/ ChunkSkip
    \/ QuotaHit
    \/ QuotaContinue
    \/ FlushLeftovers
    \/ NoLeftovers
    \/ PersistState

\* The script left to run: nobody kills the process, every request comes
\* back (a response, or an exception at the latest after the 30 s timeout),
\* every sleep ends, and the script takes its next step.
FairSpec == Init /\ [][StartRun \/ ScriptStep]_vars /\ WF_vars(ScriptStep)

TypeOK ==
    /\ pc \in {"start", "fetch", "chunk", "quota", "leftover", "save",
               "done", "killed", "crashed"}
    /\ exit \in {"HAS_MORE", "EXHAUSTED", "QUOTA_HIT", "FATAL"}
    /\ attempt \in 0..RetryAttempts
    /\ requests_done \in 0..MAX_REQS_PER_RUN
    /\ run \in 0..MaxRuns

\* ---- rate_limited_get in time ---------------------------------------------
\* LimiterSpec follows the calls the retry loop of one run makes through
\* rate_limited_get and the time they take.  A timestamp is kept as its age
\* in ticks; an age stops growing at AgeCap, past the point where the code
\* tells ages apart (now - recent_ts[0] >= WINDOW).  Computing takes no
\* time; a request, the pause between two calls and a sleep do, and a sleep
\* lasts exactly as long as asked.
AgeCap == WINDOW + MARGIN

Min(a, b) == IF a <= b THEN a ELSE b

\* The ages one tick later.
Older(ages) == [i \in DOMAIN ages |-> Min(ages[i] + 1, AgeCap)]

InWindow(age) == age < WINDOW

RECURSIVE DropExpired(_)
\* while recent_ts and now - recent_ts[0] >= WINDOW: recent_ts.popleft()
\* (lines 56-57).
DropExpired(ts) ==
    IF ts # <<>> /\ ts[1] >= WINDOW THEN DropExpired(Tail(ts)) ELSE ts

\* One tick of the clock.  Time passes while the caller is between two
\* calls, while a request is under way and while a sleep has ticks left.
Tick ==
    /\ \/ lim \in {"idle", "get"}
       \/ lim \in {"sleep", "backoff"} /\ sleep_left > 0
    /\ recent_ts' = Older(recent_ts)
    /\ sent' = SelectSeq(Older(sent), InWindow)
    /\ sleep_left' = IF lim \in {"sleep", "backoff"}
                      THEN sleep_left - 1 ELSE sleep_left
    /\ UNCHANGED <<lim, waited, attempt, script>>

\* The retry loop calls rate_limited_get (line 86).
LimEnter ==
    /\ lim = "idle"
    /\ attempt < RetryAttempts
    /\ lim' = "check"
    /\ waited' = FALSE
    /\ UNCHANGED <<recent_ts, sleep_left, sent, attempt, script>>

\* LimAdmit that lets one call too many through: <= instead of <.
LimAdmit_OffByOne ==
    /\ lim = "check"
    /\ Len(DropExpired(recent_ts)) <= MAX_RPS
    /\ recent_ts' = DropExpired(recent_ts)
    /\ sent' = Append(sent, 0)
    /\ lim' = "get"
    /\ UNCHANGED <<sleep_left, waited, attempt, script>>

\* The wait loop finds a free slot and the request goes out (lines 55-59,
\* 62).
LimAdmit ==
    /\ lim = "check"
    /\ Len(DropExpired(recent_ts)) < MAX_RPS
    /\ recent_ts' = DropExpired(recent_ts)
    /\ sent' = Append(sent, 0)
    /\ lim' = "get"
    /\ UNCHANGED <<sleep_left, waited, attempt, script>>

\* LimSleep that reads the wrong end of the deque: the sleep is computed
\* from the newest timestamp, recent_ts[-1].
LimSleep_FromNewest ==
    /\ lim = "check"
    /\ Len(DropExpired(recent_ts)) >= MAX_RPS
    /\ recent_ts' = DropExpired(recent_ts)
    /\ sleep_left' = WINDOW
                      - DropExpired(recent_ts)[Len(DropExpired(recent_ts))]
                      + MARGIN
    /\ lim' = "sleep"
    /\ waited' = TRUE
    /\ UNCHANGED <<sent, attempt, script>>

\* The wait loop finds the window full and sleeps until the oldest
\* timestamp has left it (lines 55-60).
LimSleep ==
    /\ lim = "check"
    /\ Len(DropExpired(recent_ts)) >= MAX_RPS
    /\ recent_ts' = DropExpired(recent_ts)
    /\ sleep_left' = WINDOW - DropExpired(recent_ts)[1] + MARGIN
    /\ lim' = "sleep"
    /\ waited' = TRUE
    /\ UNCHANGED <<sent, attempt, script>>

\* The sleep of the wait loop is over: back to the top of the loop
\* (lines 60, 54).
LimWake ==
    /\ lim = "sleep"
    /\ sleep_left = 0
    /\ lim' = "check"
    /\ UNCHANGED <<recent_ts, sleep_left, sent, waited, attempt, script>>

\* session.get returns a response, of whatever status: its time is recorded
\* and the retry loop is left (lines 62-64, 87).
GetReturns ==
    /\ lim = "get"
    /\ recent_ts' = Append(recent_ts, 0)
    /\ attempt' = 0
    /\ lim' = "idle"
    /\ UNCHANGED <<sleep_left, sent, waited, script>>

\* GetRaises without the time.sleep: the next attempt follows at once.
GetRaises_NoSleep ==
    /\ lim = "get"
    /\ attempt' = attempt + 1
    /\ sleep_left' = 0
    /\ lim' = "backoff"
    /\ UNCHANGED <<recent_ts, sent, waited, script>>

\* session.get raises RequestException: nothing is recorded, the retry loop
\* reports and sleeps 2 + attempt seconds (lines 62, 88-90).
GetRaises ==
    /\ lim = "get"
    /\ attempt' = attempt + 1
    /\ sleep_left' = (RetrySleepBase + attempt) * WINDOW
    /\ lim' = "backoff"
    /\ UNCHANGED <<recent_ts, sent, waited, script>>

\* The sleep of the retry loop is over: the next attempt, or none after the
\* last one (lines 90, 84).
BackoffDone ==
    /\ lim = "backoff"
    /\ sleep_left = 0
    /\ lim' = "idle"
    /\ UNCHANGED <<recent_ts, sleep_left, sent, waited, attempt, script>>

LimNext ==
    \/ Tick
    \/ LimEnter
    \/ LimAdmit
    \/ LimSleep
    \/ LimWake
    \/ GetReturns
    \/ GetRaises
    \/ BackoffDone

LimiterSpec == Init /\ [][LimNext]_vars

\* The same with time advancing and the script taking its next step: the
\* clock ticks while a sleep has ticks left, and the wait loop, which only
\* computes, goes on.
FairLimiterSpec ==
    /\ LimiterSpec
    /\ WF_vars(Tick)
    /\ WF_vars(LimWake)
    /\ WF_vars(LimAdmit)
    /\ WF_vars(LimSleep)

\* ---- C1 -------------------------------------------------------------------
\* C1 (chunk completeness): when a run has left the loop and flushed what was
\* left, by whichever exit, the records of the chunk files it wrote, taken
\* in the order of writing, are exactly the records its successful fetches
\* returned: each once, none missing; every chunk it flushed is a file of
\* its own holding what was flushed.
C1_ChunkCompleteness ==
    Ended =>
        /\ Flat(written) = returned
        /\ Len(Flat(written)) = Len(returned)
        /\ NoDuplicates(Flat(written))
        /\ Cardinality(RunCounters) = Len(written)
        /\ \A i \in DOMAIN written :
              /\ written[i].counter \in DOMAIN raw_dir
              /\ raw_dir[written[i].counter] = written[i].records

\* A finished run that flushed one chunk on the boundary and a leftover
\* chunk of a later page.
C1_Witness ==
    /\ pc = "done"
    /\ Len(written) = 2
    /\ requests_done = CHUNK_SIZE_REQS + 1
    /\ Len(returned) > CHUNK_SIZE_REQS

\* ---- C2 -------------------------------------------------------------------
\* C2 as stated: after any termination path the saved cursor was never used
\* to start a fetch in this run, except after FATAL, where it is the last
\* cursor that was successfully consumed (when the run consumed one).
C2_Original ==
    pc = "done" =>
        IF exit = "FATAL"
        THEN consumed # {} => state_file.cursor = LastConsumed
        ELSE state_file.cursor \notin started

\* C2 as amended: the saved cursor is the cursor of the query when the loop
\* was left.  After QUOTA_HIT it is the token the last fetch returned, which
\* no request of this run was issued with.  On every other path it is the
\* cursor the last request of the run was issued with; after FATAL and after
\* an empty page the page of that cursor was not consumed.
C2_SavedCursor ==
    pc = "done" =>
        /\ state_file.exists
        /\ state_file.cursor = cursor
        /\ IF exit = "QUOTA_HIT"
           THEN /\ state_file.cursor = last_next
                /\ state_file.cursor \notin started
           ELSE /\ exit \in {"FATAL", "EXHAUSTED"}
                /\ state_file.cursor = last_fetch
                /\ state_file.cursor \in started
                /\ (exit = "FATAL" \/ last_resp = "empty")
                      => state_file.cursor \notin consumed

\* A resumed run that ended on its quota and saved the token of its last
\* page.
C2_Witness ==
    /\ pc = "done"
    /\ exit = "QUOTA_HIT"
    /\ disk_at_start.exists
    /\ state_file.cursor = disk_at_start.cursor + MAX_REQS_PER_RUN

\* ---- C3 -------------------------------------------------------------------
\* C3 (resume cursor is unconsumed): on every termination path the cursor in
\* the saved checkpoint is one whose page this run has not appended to the
\* record buffer.
C3_ResumeCursorUnconsumed ==
    pc = "done" => state_file.cursor \notin consumed

\* ---- C4 -------------------------------------------------------------------
\* C4 (checkpoint counter consistency): after any termination path the saved
\* chunk_counter is the chunk_counter loaded at startup plus the number of
\* chunk files the run wrote.
C4_CounterConsistency ==
    pc = "done" =>
        /\ state_file.chunk_counter = CounterAtStart + Len(written)
        /\ state_file.chunk_counter = CounterAtStart + Cardinality(RunCounters)

\* A resumed run that started from a counter above zero and wrote a
\* boundary chunk and a leftover chunk.
C4_Witness ==
    /\ pc = "done"
    /\ disk_at_start.exists
    /\ disk_at_start.chunk_counter > 0
    /\ Len(written) >= 2
    /\ records_buffer # <<>>

\* ---- C5 -------------------------------------------------------------------
\* C5 (a forced stop loses only the unflushed buffer): wherever the process
\* is killed, a run resumed from the checkpoint on disk fetches again at most
\* one chunk's worth (CHUNK_SIZE_REQS pages) of what the killed run fetched.
C5_ForcedStopLosesOnlyBuffer ==
    pc = "killed" => Cardinality(Refetched) <= CHUNK_SIZE_REQS

\* ---- C6 -------------------------------------------------------------------
\* C6 (resume idempotence): the first request of a run goes out with the
\* cursor of the checkpoint found on disk ("*" when there is none) and the
\* first chunk the run writes has the checkpoint's counter plus one (1 when
\* there is none).
C6_ResumeIdempotence ==
    /\ issued = 1 => last_fetch = CursorAtStart
    /\ written # <<>> =>
          /\ written[1].counter = CounterAtStart + 1
          /\ written[1].counter \in DOMAIN raw_dir

\* A run resumed from a checkpoint past the start, after its first request
\* and its first chunk.
C6_Witness ==
    /\ disk_at_start.exists
    /\ disk_at_start.cursor > StartCursor
    /\ disk_at_start.chunk_counter > 0
    /\ issued = 1
    /\ Len(written) = 1

\* ---- C7 -------------------------------------------------------------------
\* C7 (quota scenario): while the provider answers every request with
\* entries and a next token, the run issues at most MAX_REQS_PER_RUN
\* requests and goes back to fetching only below the quota; once it has left
\* the loop it has issued exactly MAX_REQS_PER_RUN requests, the exit is
\* QUOTA_HIT and the cursor, also the saved one, is the token the last
\* fetch returned.
C7_QuotaScenario ==
    OnlyNextPages =>
        /\ issued <= MAX_REQS_PER_RUN
        /\ pc = "fetch" => issued < MAX_REQS_PER_RUN
        /\ pc \in {"leftover", "save", "done"} =>
              /\ issued = MAX_REQS_PER_RUN
              /\ exit = "QUOTA_HIT"
              /\ cursor = last_next
              /\ last_next = CursorAtStart + MAX_REQS_PER_RUN
        /\ pc = "done" => state_file.cursor = last_next

\* A finished run of MAX_REQS_PER_RUN pages, each with a next token.
C7_Witness ==
    /\ pc = "done"
    /\ OnlyNextPages
    /\ issued = MAX_REQS_PER_RUN
    /\ exit = "QUOTA_HIT"

\* ---- C8 -------------------------------------------------------------------
\* C8 (end-of-data scenario): after a response with no entries the loop is
\* left in EXHAUSTED with the cursor that request was issued with; what was
\* buffered is flushed before the save, and the saved cursor is that cursor.
C8_EndOfData ==
    last_resp = "empty" =>
        /\ exit = "EXHAUSTED"
        /\ pc \in {"leftover", "save", "done", "killed"}
        /\ cursor = last_fetch
        /\ Ended =>
              /\ Flat(written) = returned
              /\ records_buffer # <<>> =>
                    written[Len(written)].records = records_buffer
        /\ pc = "done" => state_file.cursor = last_fetch

\* A finished run whose fourth request met an empty page with one page
\* still in the buffer.
C8_Witness ==
    /\ pc = "done"
    /\ last_resp = "empty"
    /\ requests_done = CHUNK_SIZE_REQS + 1
    /\ Len(written) = 2
    /\ state_file.cursor = CursorAtStart + CHUNK_SIZE_REQS + 1

\* ---- C9 -------------------------------------------------------------------
\* C9 (retry-then-abort scenario): a run aborted by network errors made
\* RetryAttempts failed attempts and left the cursor where the failing fetch
\* had it, a cursor whose page was not consumed; the checkpoint it saves has
\* that cursor and a counter that counts exactly the chunks the run flushed,
\* none of them empty.
C9_RetryThenAbort ==
    RetryAbort =>
        /\ attempt = RetryAttempts
        /\ cursor = last_fetch
        /\ cursor \notin consumed
        /\ pc = "done" =>
              /\ state_file.cursor = last_fetch
              /\ state_file.chunk_counter = CounterAtStart + Len(written)
              /\ \A i \in DOMAIN written : written[i].records # <<>>

\* A finished run that consumed pages, flushed a chunk and was then aborted
\* by five network errors.
C9_Witness ==
    /\ pc = "done"
    /\ RetryAbort
    /\ Len(written) >= 1
    /\ state_file.cursor > CursorAtStart

\* ---- C10 ------------------------------------------------------------------
\* C10 (final flush and checkpoint save on every path): a run has written
\* the checkpoint once when it is done and not at all before; the file
\* changes only in the step from the save to the end, after the loop was
\* left by one of its exits and after everything returned was flushed.
C10_SaveOnceAtEnd ==
    /\ [](saves = IF pc = "done" THEN 1 ELSE 0)
    /\ [][state_file' # state_file =>
            /\ pc = "save"
            /\ pc' = "done"
            /\ saves = 0
            /\ exit \in {"EXHAUSTED", "QUOTA_HIT", "FATAL"}
            /\ Flat(written) = returned]_vars

\* A run aborted by a non-success status after two flushes, with its
\* checkpoint saved.
C10_Witness ==
    /\ pc = "done"
    /\ saves = 1
    /\ exit = "FATAL"
    /\ last_resp = "http"
    /\ Len(written) >= 2
    /\ state_file # disk_at_start

\* ---- C11 ------------------------------------------------------------------
\* C11 (no empty trailing chunk): no chunk this run flushed and no file on
\* disk holds zero records; a run that ended after a multiple of
\* CHUNK_SIZE_REQS successful fetches has written one file per
\* CHUNK_SIZE_REQS fetches and none beyond them.
C11_NoEmptyChunk ==
    /\ \A i \in DOMAIN written : written[i].records # <<>>
    /\ \A c \in DOMAIN raw_dir : raw_dir[c] # <<>>
    /\ (Ended /\ requests_done % CHUNK_SIZE_REQS = 0) =>
          Len(written) = requests_done \div CHUNK_SIZE_REQS

\* A run that stopped on its quota, a chunk boundary, with nothing left in
\* the buffer.
C11_Witness ==
    /\ pc = "done"
    /\ exit = "QUOTA_HIT"
    /\ requests_done > 0
    /\ requests_done % CHUNK_SIZE_REQS = 0
    /\ records_buffer = <<>>
    /\ Len(written) = requests_done \div CHUNK_SIZE_REQS

\* ---- C12 ------------------------------------------------------------------
\* C12 (rate bound): at every moment the requests issued in the last WINDOW
\* ticks, those that failed and were not recorded included, are at most
\* MAX_RPS, and so are the recorded timestamps.
C12_RateBound ==
    /\ Len(sent) <= MAX_RPS
    /\ Len(recent_ts) <= MAX_RPS
    /\ \A i \in DOMAIN sent : InWindow(sent[i])

\* A request that has just failed, the last of MAX_RPS requests issued
\* inside one window.
C12_Witness ==
    /\ lim = "backoff"
    /\ attempt >= 1
    /\ Len(sent) = MAX_RPS
    /\ Len(recent_ts) = MAX_RPS - 1

C14_BoundedRetrySameCursor ==
    /\ [](attempt <= RetryAttempts)
    /\ [][issued' = issued + 1 =>
            /\ attempt < RetryAttempts
            /\ last_fetch' = cursor
            /\ attempt > 0 => (last_resp = "neterr" /\ last_fetch' = last_fetch)
            /\ cursor \notin consumed]_vars
    /\ [][(cursor' # cursor /\ run' = run) =>
            /\ issued' = issued + 1
            /\ last_resp' = "next"
            /\ cursor' = last_next'
            /\ cursor \in consumed'
            /\ cursor' \notin started']_vars

\* The third attempt of a fetch is due, after the cursor has advanced.
C14_Witness ==
    /\ pc = "fetch"
    /\ attempt = 2
    /\ last_resp = "neterr"
    /\ last_fetch = cursor
    /\ cursor > CursorAtStart

\* ---- C15 ------------------------------------------------------------------
\* C15 (chunk counters are monotonic and chunks are write-once): within a run
\* each flush uses the counter after the one of the flush before it, and,
\* over all runs, a flush never goes to a counter that already has a file.
C15_WriteOnceChunks ==
    /\ [](\A i \in DOMAIN written :
            i > 1 => written[i].counter = written[i - 1].counter + 1)
    /\ [][(written' # written /\ written' # <<>>) =>
            written'[Len(written')].counter \notin DOMAIN raw_dir]_vars

\* ---- C16 ------------------------------------------------------------------
\* C16 (bounded chunk size): every chunk flushed and every file on disk holds
\* the entries of at most CHUNK_SIZE_REQS fetches; when an iteration of the
\* loop starts the buffer holds the entries of requests_done modulo
\* CHUNK_SIZE_REQS fetches, fewer than CHUNK_SIZE_REQS; and past the flush
\* test on a boundary the buffer is empty.
C16_BoundedChunkSize ==
    /\ \A i \in DOMAIN written :
          Cardinality(PagesOf(written[i].records)) <= CHUNK_SIZE_REQS
    /\ \A c \in DOMAIN raw_dir :
          Cardinality(PagesOf(raw_dir[c])) <= CHUNK_SIZE_REQS
    /\ pc = "fetch" =>
          /\ Cardinality(PagesOf(records_buffer)) < CHUNK_SIZE_REQS
          /\ Cardinality(PagesOf(records_buffer))
                = requests_done % CHUNK_SIZE_REQS
    /\ (pc = "quota" /\ requests_done % CHUNK_SIZE_REQS = 0) =>
          records_buffer = <<>>

\* An iteration starts with a full chunk flushed and the buffer one fetch
\* short of the next boundary.
C16_Witness ==
    /\ pc = "fetch"
    /\ Len(written) >= 1
    /\ Cardinality(PagesOf(written[1].records)) = CHUNK_SIZE_REQS
    /\ Cardinality(PagesOf(records_buffer)) = CHUNK_SIZE_REQS - 1

\* ---- C17 ------------------------------------------------------------------
\* C17 (the rate limiter never starves): a call that sleeps in the wait loop
\* is due to wake exactly WINDOW + MARGIN ticks after the oldest timestamp
\* the window retains; when it wakes that timestamp has this age, and its
\* next step is the admission, not another sleep; and, time advancing, every
\* call that enters the wait loop is admitted.
C17_NeverStarves ==
    /\ [](lim = "sleep" =>
            /\ recent_ts # <<>>
            /\ recent_ts[1] + sleep_left = WINDOW + MARGIN)
    /\ []((lim = "check" /\ waited) => recent_ts[1] = WINDOW + MARGIN)
    /\ [][(lim = "check" /\ waited) => lim' = "get"]_vars
    /\ (lim = "check" ~> lim = "get")

\* A request under way that had to wait for its slot.
C17_Witness ==
    /\ lim = "get"
    /\ waited
    /\ Len(recent_ts) = MAX_RPS - 1

\* ---- C18 ------------------------------------------------------------------
\* C18 (reported request count): the count the summary of a finished run
\* reports, requests_done, is the number of requests the run issued.
C18_ReportedRequestCount ==
    pc = "done" => requests_done = issued

\* ---- C19 ------------------------------------------------------------------
\* C19 (run termination): a run starts at most MAX_REQS_PER_RUN iterations
\* of the loop, the k-th after k - 1 counted requests, and issues at most
\* RetryAttempts requests in each; and a run that is left to run reaches the
\* end with its checkpoint saved.
C19_RunTerminates ==
    /\ [](iterations <= MAX_REQS_PER_RUN)
    /\ [](pc = "fetch" => iterations = requests_done + 1)
    /\ [](attempt <= RetryAttempts /\ issued <= RetryAttempts * iterations)
    /\ (pc = "fetch" ~> (pc = "done" /\ saves = 1))

\* A finished run that used all its iterations, some of them with retries,
\* and did not end on the quota.
C19_Witness ==
    /\ pc = "done"
    /\ iterations = MAX_REQS_PER_RUN
    /\ issued > iterations
    /\ exit # "QUOTA_HIT"

\* ---- C20 ------------------------------------------------------------------
\* C20 (the quota covers every answered request): the responses a run has
\* received, pages or not, are at most MAX_REQS_PER_RUN, and the script is
\* at a request only while requests_done is below MAX_REQS_PER_RUN.
C20_QuotaCoversAnswered ==
    /\ answered <= MAX_REQS_PER_RUN
    /\ requests_done <= answered
    /\ pc = "fetch" => requests_done < MAX_REQS_PER_RUN

\* A finished run whose last response, the MAX_REQS_PER_RUN-th, was an empty
\* page.
C20_Witness ==
    /\ pc = "done"
    /\ last_resp = "empty"
    /\ answered = MAX_REQS_PER_RUN
    /\ requests_done = MAX_REQS_PER_RUN - 1

=============================================================================
